---- MODULE Spec2Model ----
(***************************************************************************)
(* Model of the message relay of the Currency Conversion Expert service    *)
(* (src/main.py): the streaming generator stream_agent_progress and the    *)
(* buffered handler query_agent, each driving one call of the external     *)
(* agent's asynchronous message stream, query(prompt, options).            *)
(*                                                                         *)
(* The external stream of a run is a script: the messages it would yield,  *)
(* in order, and how it ends once they are used up (StopAsyncIteration or  *)
(* a raised exception).  Python strings are TLA+ strings, lists are        *)
(* sequences, dicts and objects are records, None is the record None.      *)
(* The timestamp of an event and its SSE framing ("data: <json>\n\n") are  *)
(* left out of an event: an event is its type and its data.                *)
(***************************************************************************)
EXTENDS Integers, Sequences, FiniteSets, TLC

VARIABLES mode, script, pc, options, opened, pos, blk,
          response_parts, usage_info, events, outcome

vars == <<mode, script, pc, options, opened, pos, blk,
          response_parts, usage_info, events, outcome>>

(***************************************************************************)
(* Bounds of the model.                                                    *)
(***************************************************************************)
\* messages a script holds at most
MaxMsgs == 3
\* content blocks a script holds at most, over all its messages
MaxBlocks == 2
\* concurrent invocations of ConcSpec
NumRuns == 2

(***************************************************************************)
(* Python values.                                                          *)
(***************************************************************************)
None == [type |-> "NoneType"]

EmptyDict == [k \in {} |-> k]

\* bool(x) of a value that is None or a dict
Truthy(x) == x # None /\ x # EmptyDict

\* slip: the "or {}" is left out
OrLeft(x, y) == x

\* x or y
Or(x, y) == IF Truthy(x) THEN x ELSE y

AGENT_CONFIG ==
    [name |-> "Currency Conversion Expert",
     role |-> "Financial Data Analyst specializing in currency exchange rates",
     tools |-> <<"WebSearch", "WebFetch", "Read", "Write", "Bash">>,
     permission_mode |-> "acceptEdits"]

(***************************************************************************)
(* The messages of the external stream (claude_agent_sdk.types).           *)
(***************************************************************************)
Texts == {"", "a"}

TextBlocks == {[type |-> "TextBlock", text |-> t] : t \in Texts}

ToolUseBlocks ==
    {[type |-> "ToolUseBlock", name |-> "WebSearch", input |-> [query |-> "usd eur"]]}

\* a content block that is neither a TextBlock nor a ToolUseBlock
OtherBlocks == {[type |-> "ToolResultBlock"]}

Blocks == TextBlocks \cup ToolUseBlocks \cup OtherBlocks

ResultMessages ==
    {[type |-> "ResultMessage", duration_ms |-> 1200, total_cost_usd |-> 2,
      num_turns |-> 1, session_id |-> "s1"],
     [type |-> "ResultMessage", duration_ms |-> 3400, total_cost_usd |-> 5,
      num_turns |-> 2, session_id |-> "s2"]}

\* a message that is neither an AssistantMessage nor a ResultMessage
OtherMessages == {[type |-> "SystemMessage"]}

\* the messages that hold exactly j content blocks
MessagesOf(j) ==
    {[type |-> "AssistantMessage", content |-> c] : c \in [1..j -> Blocks]} \cup
    (IF j = 0 THEN ResultMessages \cup OtherMessages ELSE {})

\* the message sequences of at most n messages and at most b blocks in all
RECURSIVE MsgSeqs(_, _)
MsgSeqs(n, b) ==
    IF n = 0 THEN {<<>>}
    ELSE {<<>>} \cup
         UNION {{<<m>> \o s : m \in MessagesOf(j), s \in MsgSeqs(n - 1, b - j)} :
                j \in 0..b}

\* the exception the stream raises, and the one ClaudeAgentOptions raises
StreamError == [type |-> "ProcessError", args |-> <<"agent process failed">>]

OptionsError == [type |-> "TypeError", args |-> <<"invalid options">>]

\* str(e) of an exception with one argument
Str(e) == e.args[1]

\* how a stream ends after its messages: StopAsyncIteration or an exception
Ends == {"exhaust", "raise"}

Scripts == {[msgs |-> s, end |-> e] : s \in MsgSeqs(MaxMsgs, MaxBlocks), e \in Ends}

Modes == {"stream", "query"}

(***************************************************************************)
(* Pure parts of the two handlers.                                         *)
(***************************************************************************)
\* create_event, without the timestamp and the SSE framing
create_event(event_type, data) == [type |-> event_type, data |-> data]

\* slip: the parts are joined by a space
RECURSIVE JoinWithSpace(_)
JoinWithSpace(parts) ==
    IF Len(parts) = 0 THEN ""
    ELSE IF Len(parts) = 1 THEN parts[1]
    ELSE parts[1] \o " " \o JoinWithSpace(Tail(parts))

\* "\n".join(parts)
RECURSIVE Join(_)
Join(parts) ==
    IF Len(parts) = 0 THEN ""
    ELSE IF Len(parts) = 1 THEN parts[1]
    ELSE parts[1] \o "\n" \o Join(Tail(parts))

\* slip: the fallback for an empty list is left out
FullResponseAlwaysJoined(parts) == Join(parts)

\* slip: the fallback is chosen when the joined text is empty, not the list
FullResponseIfJoinedEmpty(parts) ==
    IF Join(parts) # "" THEN Join(parts) ELSE "No response received"

\* "\n".join(response_parts) if response_parts else "No response received"
FullResponse(parts) ==
    IF Len(parts) # 0 THEN Join(parts) ELSE "No response received"

\* the usage_info dict built from a ResultMessage
UsageOf(message) ==
    [duration_ms |-> message.duration_ms,
     total_cost_usd |-> message.total_cost_usd,
     num_turns |-> message.num_turns,
     session_id |-> message.session_id]

AgentInfo == [name |-> AGENT_CONFIG.name, role |-> AGENT_CONFIG.role]

InitEvent ==
    create_event("progress",
        [message |-> "Starting Currency Conversion Expert...",
         agent |-> AGENT_CONFIG.name,
         status |-> "initializing"])

ProcessingEvent ==
    create_event("progress",
        [message |-> "Processing your request...",
         status |-> "processing"])

ResponseEvent(block) ==
    create_event("response",
        [content |-> block.text,
         partial |-> TRUE,
         message |-> "Agent thinking..."])

ToolUseEvent(block) ==
    create_event("tool_use",
        [tool |-> block.name,
         input |-> block.input,
         message |-> "Using " \o block.name \o " tool...",
         status |-> "executing"])

CompleteEvent(parts, usage) ==
    create_event("complete",
        [response |-> FullResponse(parts),
         usage |-> Or(usage, EmptyDict),
         status |-> "completed",
         message |-> "Task completed successfully!",
         agent_info |-> AgentInfo])

\* slip: the event carries the name of the exception's type, not str(e)
ErrorEventTypeName(e) ==
    create_event("error",
        [error |-> e.type,
         message |-> "Error: " \o e.type,
         status |-> "failed"])

ErrorEvent(e) ==
    create_event("error",
        [error |-> Str(e),
         message |-> "Error: " \o Str(e),
         status |-> "failed"])

\* QueryResponse(status="success", ...)
QueryResponse(parts, usage) ==
    [status |-> "success",
     response |-> FullResponse(parts),
     usage |-> Or(usage, EmptyDict),
     agent_info |-> AgentInfo]

\* HTTPException(status_code=500, detail=...)
HTTPException(e) ==
    [status_code |-> 500,
     detail |-> "Agent execution failed: " \o Str(e)]

\* does the streaming loop yield an event for this block
Yields(block) == block.type \in {"TextBlock", "ToolUseBlock"}

\* slip: the last such block is taken, the ones before it are passed over
NextYieldLast(content, j) ==
    LET K == {k \in j..Len(content) : Yields(content[k])}
    IN  IF K = {} THEN 0 ELSE CHOOSE k \in K : \A i \in K : k >= i

\* the first block of content at index j or later that yields, 0 if none
NextYield(content, j) ==
    LET K == {k \in j..Len(content) : Yields(content[k])}
    IN  IF K = {} THEN 0 ELSE CHOOSE k \in K : \A i \in K : k <= i

\* slip: the use of a tool is announced by an event of type progress
BlockEventAsProgress(block) ==
    IF block.type = "TextBlock" THEN ResponseEvent(block)
    ELSE create_event("progress", ToolUseEvent(block).data)

\* the event the streaming loop yields for a TextBlock or a ToolUseBlock
BlockEvent(block) ==
    IF block.type = "TextBlock" THEN ResponseEvent(block) ELSE ToolUseEvent(block)

\* slip: the text is put in front of the list instead of at its end
PartsAfterInFront(parts, block) ==
    IF block.type = "TextBlock" THEN <<block.text>> \o parts ELSE parts

\* slip: the name of a used tool is appended to the response text too
PartsAfterWithTools(parts, block) ==
    IF block.type = "TextBlock" THEN Append(parts, block.text)
    ELSE Append(parts, block.name)

\* response_parts after the streaming loop has handled the block
PartsAfter(parts, block) ==
    IF block.type = "TextBlock" THEN Append(parts, block.text) ELSE parts

\* slip: the buffered loop appends a text only if it is not empty
RECURSIVE AppendTextsNonEmpty(_, _)
AppendTextsNonEmpty(parts, content) ==
    IF content = <<>> THEN parts
    ELSE AppendTextsNonEmpty(IF Head(content).type = "TextBlock" /\ Head(content).text # ""
                             THEN Append(parts, Head(content).text)
                             ELSE parts,
                             Tail(content))

\* response_parts after the buffered loop has run over a message's content
RECURSIVE AppendTexts(_, _)
AppendTexts(parts, content) ==
    IF content = <<>> THEN parts
    ELSE AppendTexts(IF Head(content).type = "TextBlock"
                     THEN Append(parts, Head(content).text)
                     ELSE parts,
                     Tail(content))

(***************************************************************************)
(* State.  Every variable is a function of the invocation (run).           *)
(***************************************************************************)
Runs == DOMAIN pc

\* the state in which the invocations, of the modes and with the streams of
\* one element of M and S, have been received and none has run yet
InitWith(M, S) ==
    /\ mode \in M
    /\ script \in S
    /\ pc = [r \in DOMAIN mode |-> "start"]
    /\ options = [r \in DOMAIN mode |-> "unset"]
    /\ opened = [r \in DOMAIN mode |-> 0]
    /\ pos = [r \in DOMAIN mode |-> 0]
    /\ blk = [r \in DOMAIN mode |-> 0]
    /\ response_parts = [r \in DOMAIN mode |-> <<>>]
    /\ usage_info = [r \in DOMAIN mode |-> None]
    /\ events = [r \in DOMAIN mode |-> <<>>]
    /\ outcome = [r \in DOMAIN mode |-> None]

\* one invocation, of either mode, with any stream of the bounds
Init == InitWith([{1} -> Modes], [{1} -> Scripts])

\* a streaming and a buffered invocation whose streams follow the same script
PairScripts ==
    {[msgs |-> s, end |-> e] : s \in MsgSeqs(MaxMsgs - 1, MaxBlocks), e \in Ends}

InitPair == InitWith({<<"stream", "query">>}, {<<s, s>> : s \in PairScripts})

\* NumRuns concurrent invocations, each of either mode, whose streams differ
\* in their texts, their usage and their end
ConcScripts ==
    LET text(t) == [type |-> "TextBlock", text |-> t]
        tool == CHOOSE b \in ToolUseBlocks : TRUE
        assistant(c) == [type |-> "AssistantMessage", content |-> c]
        result(id) == CHOOSE m \in ResultMessages : m.session_id = id
        system == CHOOSE m \in OtherMessages : TRUE
    IN  {[msgs |-> <<assistant(<<text("a")>>), result("s1")>>, end |-> "exhaust"],
         [msgs |-> <<assistant(<<tool, text("")>>), result("s2")>>, end |-> "exhaust"],
         [msgs |-> <<assistant(<<text("a")>>)>>, end |-> "raise"],
         [msgs |-> <<system>>, end |-> "exhaust"]}

InitConc == InitWith([1..NumRuns -> Modes], [1..NumRuns -> ConcScripts])

\* the script with the ToolUseBlocks taken out of its AssistantMessages
WithoutToolUse(s) ==
    LET keep(b) == b.type # "ToolUseBlock"
        strip(m) == IF m.type = "AssistantMessage"
                    THEN [m EXCEPT !.content = SelectSeq(m.content, keep)]
                    ELSE m
    IN  [s EXCEPT !.msgs = [i \in 1..Len(s.msgs) |-> strip(s.msgs[i])]]

\* two invocations of one mode: the stream of the first holds a ToolUseBlock,
\* the stream of the second follows the same script without its ToolUseBlocks
InitTools ==
    InitWith({<<m, m>> : m \in Modes},
             {<<s, WithoutToolUse(s)>> : s \in {t \in PairScripts : WithoutToolUse(t) # t}})

\* one invocation whose stream yields one AssistantMessage of empty texts,
\* of texts that read as the fallback response, and of ToolUseBlocks, and
\* then a ResultMessage or not
EdgeScripts ==
    LET blocks == {[type |-> "TextBlock", text |-> ""],
                   [type |-> "TextBlock", text |-> "No response received"]} \cup
                  ToolUseBlocks
        contents == UNION {[1..n -> blocks] : n \in 0..MaxBlocks}
        tails == {<<>>} \cup {<<m>> : m \in ResultMessages}
    IN  {[msgs |-> <<[type |-> "AssistantMessage", content |-> c]>> \o t, end |-> e] :
            c \in contents, t \in tails, e \in Ends}

InitEdge == InitWith([{1} -> Modes], [{1} -> EdgeScripts])

\* NumRuns concurrent invocations whose streams end, raise, or after their
\* messages never deliver again ("hang": the awaited __anext__ never returns)
LiveScripts ==
    LET text(t) == [type |-> "TextBlock", text |-> t]
        assistant(c) == [type |-> "AssistantMessage", content |-> c]
        result(id) == CHOOSE m \in ResultMessages : m.session_id = id
    IN  {[msgs |-> <<result("s1")>>, end |-> "hang"],
         [msgs |-> <<>>, end |-> "exhaust"],
         [msgs |-> <<>>, end |-> "raise"],
         [msgs |-> <<assistant(<<text("a")>>)>>, end |-> "hang"]}

InitLive == InitWith([1..NumRuns -> Modes], [1..NumRuns -> LiveScripts])

\* the awaited __anext__ of the stream of run r completes: the stream has a
\* next message, or it stops or raises
Delivers(r) == ~(pos[r] = Len(script[r].msgs) /\ script[r].end = "hang")

\* slip: response_parts is one list of the module, which every run uses
SharedParts(r, v) == [q \in Runs |-> v]

\* response_parts is a local variable of the invocation: an assignment to it
\* or an append to the list it names changes the list of run r only
LocalParts(r, v) == [response_parts EXCEPT ![r] = v]

\* usage_info is a local variable of the invocation
LocalUsage(r, v) == [usage_info EXCEPT ![r] = v]

(***************************************************************************)
(* stream_agent_progress: one action per resumption of the generator, from *)
(* the point where it is suspended to its next yield, await or return.     *)
(***************************************************************************)
\* first resumption: up to the yield of the initial progress event
StreamStart(r) ==
    /\ mode[r] = "stream" /\ pc[r] = "start"
    /\ events' = [events EXCEPT ![r] = Append(@, InitEvent)]
    /\ pc' = [pc EXCEPT ![r] = "y_init"]
    /\ UNCHANGED <<mode, script, options, opened, pos, blk,
                   response_parts, usage_info, outcome>>

\* ClaudeAgentOptions(...), then the yield of the second progress event;
\* an exception of the constructor is caught by the except clause
StreamBuildOptions(r) ==
    /\ mode[r] = "stream" /\ pc[r] = "y_init"
    /\ \E ok \in BOOLEAN :
         IF ok
         THEN /\ options' = [options EXCEPT ![r] = "built"]
              /\ events' = [events EXCEPT ![r] = Append(@, ProcessingEvent)]
              /\ pc' = [pc EXCEPT ![r] = "y_processing"]
         ELSE /\ options' = [options EXCEPT ![r] = "failed"]
              /\ events' = [events EXCEPT ![r] = Append(@, ErrorEvent(OptionsError))]
              /\ pc' = [pc EXCEPT ![r] = "y_terminal"]
    /\ UNCHANGED <<mode, script, opened, pos, blk,
                   response_parts, usage_info, outcome>>

\* response_parts = [], usage_info = None, query(...) is called and the
\* first message awaited
StreamOpen(r) ==
    /\ mode[r] = "stream" /\ pc[r] = "y_processing"
    /\ response_parts' = LocalParts(r, <<>>)
    /\ usage_info' = LocalUsage(r, None)
    /\ opened' = [opened EXCEPT ![r] = @ + 1]
    /\ pc' = [pc EXCEPT ![r] = "await"]
    /\ UNCHANGED <<mode, script, options, pos, blk, events, outcome>>

\* the loop body from block j of the current message on: up to the yield of
\* the next TextBlock or ToolUseBlock, or back to the await of the next message
StreamBlocksFrom(r, content, j) ==
    LET k == NextYield(content, j)
    IN  IF k = 0
        THEN /\ pc' = [pc EXCEPT ![r] = "await"]
             /\ blk' = [blk EXCEPT ![r] = 0]
             /\ UNCHANGED <<response_parts, events>>
        ELSE /\ response_parts' =
                   LocalParts(r, PartsAfter(response_parts[r], content[k]))
             /\ events' = [events EXCEPT ![r] = Append(@, BlockEvent(content[k]))]
             /\ blk' = [blk EXCEPT ![r] = k]
             /\ pc' = [pc EXCEPT ![r] = "y_block"]

\* the code after the loop: full_response and the yield of the complete event
StreamFinish(r, usage) ==
    /\ events' = [events EXCEPT ![r] =
                     Append(@, CompleteEvent(response_parts[r], usage))]
    /\ pc' = [pc EXCEPT ![r] = "y_terminal"]

\* slip: the try block ends before the code after the loop, so the complete
\* event is yielded after the error event
StreamExceptFallsThrough(r, e) ==
    /\ events' = [events EXCEPT ![r] =
                     Append(Append(@, ErrorEvent(e)),
                            CompleteEvent(response_parts[r], usage_info[r]))]
    /\ pc' = [pc EXCEPT ![r] = "y_terminal"]

\* slip: the exception is swallowed inside the loop and the next message
\* awaited again
StreamExceptAwaitsAgain(r, e) ==
    /\ pc' = [pc EXCEPT ![r] = "await"]
    /\ UNCHANGED events

\* the except clause: the yield of the error event
StreamExcept(r, e) ==
    /\ events' = [events EXCEPT ![r] = Append(@, ErrorEvent(e))]
    /\ pc' = [pc EXCEPT ![r] = "y_terminal"]

\* slip: the break is left out, so the loop awaits the next message
StreamResultNoBreak(r, message) ==
    /\ usage_info' = LocalUsage(r, UsageOf(message))
    /\ UNCHANGED <<pc, blk, response_parts, events>>

\* the ResultMessage branch: usage_info is set and the loop is left by break,
\* so the code after the loop runs in the same resumption
StreamResult(r, message) ==
    /\ usage_info' = LocalUsage(r, UsageOf(message))
    /\ StreamFinish(r, UsageOf(message))
    /\ UNCHANGED <<blk, response_parts>>

\* slip: a message of another type ends the loop as a ResultMessage does
StreamIgnoreEndsLoop(r) ==
    /\ StreamFinish(r, usage_info[r])
    /\ UNCHANGED <<blk, response_parts, usage_info>>

\* a message that is neither an AssistantMessage nor a ResultMessage matches
\* no branch: the loop awaits the next message
StreamIgnore(r) == UNCHANGED <<pc, blk, response_parts, usage_info, events>>

\* the awaited __anext__ of the stream returns, stops or raises
StreamNext(r) ==
    /\ mode[r] = "stream" /\ pc[r] = "await"
    /\ Delivers(r)
    /\ LET i == pos[r] + 1
           msgs == script[r].msgs
       IN  IF i > Len(msgs)
           THEN /\ IF script[r].end = "raise"
                   THEN StreamExcept(r, StreamError)
                   ELSE StreamFinish(r, usage_info[r])
                /\ UNCHANGED <<pos, blk, response_parts, usage_info>>
           ELSE /\ pos' = [pos EXCEPT ![r] = i]
                /\ IF msgs[i].type = "AssistantMessage"
                   THEN /\ StreamBlocksFrom(r, msgs[i].content, 1)
                        /\ UNCHANGED usage_info
                   ELSE IF msgs[i].type = "ResultMessage"
                   THEN StreamResult(r, msgs[i])
                   ELSE StreamIgnore(r)
    /\ UNCHANGED <<mode, script, options, opened, outcome>>

\* the generator is resumed after the yield of a response or tool_use event
StreamResume(r) ==
    /\ mode[r] = "stream" /\ pc[r] = "y_block"
    /\ StreamBlocksFrom(r, script[r].msgs[pos[r]].content, blk[r] + 1)
    /\ UNCHANGED <<mode, script, options, opened, pos, usage_info, outcome>>

\* slip: after the error event the call of the agent is tried a second time
StreamReturnRetries(r) ==
    /\ mode[r] = "stream" /\ pc[r] = "y_terminal"
    /\ IF events[r][Len(events[r])].type = "error" /\ opened[r] = 1
       THEN /\ opened' = [opened EXCEPT ![r] = @ + 1]
            /\ pos' = [pos EXCEPT ![r] = 0]
            /\ pc' = [pc EXCEPT ![r] = "await"]
       ELSE /\ pc' = [pc EXCEPT ![r] = "done"]
            /\ UNCHANGED <<opened, pos>>
    /\ UNCHANGED <<mode, script, options, blk, response_parts, usage_info, events, outcome>>

\* the generator is resumed after the yield of the complete or error event
\* and returns
StreamReturn(r) ==
    /\ mode[r] = "stream" /\ pc[r] = "y_terminal"
    /\ pc' = [pc EXCEPT ![r] = "done"]
    /\ UNCHANGED <<mode, script, options, opened, pos, blk,
                   response_parts, usage_info, events, outcome>>

(***************************************************************************)
(* query_agent: one action per stretch of code between two awaits.         *)
(***************************************************************************)
\* ClaudeAgentOptions(...), response_parts = [], usage_info = None, query(...)
\* is called and the first message awaited
QueryStart(r) ==
    /\ mode[r] = "query" /\ pc[r] = "start"
    /\ \E ok \in BOOLEAN :
         IF ok
         THEN /\ options' = [options EXCEPT ![r] = "built"]
              /\ response_parts' = LocalParts(r, <<>>)
              /\ usage_info' = LocalUsage(r, None)
              /\ opened' = [opened EXCEPT ![r] = @ + 1]
              /\ pc' = [pc EXCEPT ![r] = "await"]
              /\ UNCHANGED outcome
         ELSE /\ options' = [options EXCEPT ![r] = "failed"]
              /\ outcome' = [outcome EXCEPT ![r] = HTTPException(OptionsError)]
              /\ pc' = [pc EXCEPT ![r] = "done"]
              /\ UNCHANGED <<response_parts, usage_info, opened>>
    /\ UNCHANGED <<mode, script, pos, blk, events>>

\* the code after the loop: full_response and the returned QueryResponse
QueryFinish(r, usage) ==
    /\ outcome' = [outcome EXCEPT ![r] = QueryResponse(response_parts[r], usage)]
    /\ pc' = [pc EXCEPT ![r] = "done"]

\* slip: the except clause returns what was accumulated as a success
QueryExceptPartial(r, e) ==
    /\ outcome' = [outcome EXCEPT ![r] = QueryResponse(response_parts[r], usage_info[r])]
    /\ pc' = [pc EXCEPT ![r] = "done"]

\* the except clause: the raised HTTPException
QueryExcept(r, e) ==
    /\ outcome' = [outcome EXCEPT ![r] = HTTPException(e)]
    /\ pc' = [pc EXCEPT ![r] = "done"]

\* the ResultMessage branch: usage_info is set and the loop is left by break,
\* so the code after the loop runs before the next await
QueryResult(r, message) ==
    /\ usage_info' = LocalUsage(r, UsageOf(message))
    /\ QueryFinish(r, UsageOf(message))
    /\ UNCHANGED response_parts

\* a message that is neither an AssistantMessage nor a ResultMessage matches
\* no branch: the loop awaits the next message
QueryIgnore(r) == UNCHANGED <<pc, response_parts, usage_info, outcome>>

\* the awaited __anext__ of the stream returns, stops or raises
QueryNext(r) ==
    /\ mode[r] = "query" /\ pc[r] = "await"
    /\ Delivers(r)
    /\ LET i == pos[r] + 1
           msgs == script[r].msgs
       IN  IF i > Len(msgs)
           THEN /\ IF script[r].end = "raise"
                   THEN QueryExcept(r, StreamError)
                   ELSE QueryFinish(r, usage_info[r])
                /\ UNCHANGED <<pos, response_parts, usage_info>>
           ELSE /\ pos' = [pos EXCEPT ![r] = i]
                /\ IF msgs[i].type = "AssistantMessage"
                   THEN /\ response_parts' =
                              LocalParts(r, AppendTexts(response_parts[r], msgs[i].content))
                        /\ UNCHANGED <<pc, usage_info, outcome>>
                   ELSE IF msgs[i].type = "ResultMessage"
                   THEN QueryResult(r, msgs[i])
                   ELSE QueryIgnore(r)
    /\ UNCHANGED <<mode, script, options, opened, blk, events>>

\* a step of invocation r
RunStep(r) ==
    \/ StreamStart(r)
    \/ StreamBuildOptions(r)
    \/ StreamOpen(r)
    \/ StreamNext(r)
    \/ StreamResume(r)
    \/ StreamReturn(r)
    \/ QueryStart(r)
    \/ QueryNext(r)

Next == \E r \in Runs : RunStep(r)

Spec == Init /\ [][Next]_vars

PairSpec == InitPair /\ [][Next]_vars

ConcSpec == InitConc /\ [][Next]_vars

ToolSpec == InitTools /\ [][Next]_vars

EdgeSpec == InitEdge /\ [][Next]_vars

\* the event loop resumes every invocation that can take a step, and the
\* consumer of the generator keeps asking it for its next event
LiveSpec == InitLive /\ [][Next]_vars /\ \A r \in 1..NumRuns : WF_vars(RunStep(r))

(***************************************************************************)
(* What a run has shown so far, and what its script says, for the          *)
(* properties below.                                                       *)
(***************************************************************************)
Stream(r) == mode[r] = "stream"

Query(r) == mode[r] = "query"

\* the run has produced its terminal outcome
Finished(r) == pc[r] \in {"y_terminal", "done"}

TerminalTypes == {"complete", "error"}

\* the positions of the terminal events among the events of run r
TerminalAt(r) == {i \in 1..Len(events[r]) : events[r][i].type \in TerminalTypes}

LastEvent(r) == events[r][Len(events[r])]

\* the run ended in its except clause
Failed(r) ==
    /\ Finished(r)
    /\ IF Stream(r) THEN LastEvent(r).type = "error" ELSE "status_code" \in DOMAIN outcome[r]

\* the run ended after its loop
Succeeded(r) == Finished(r) /\ ~Failed(r)

\* the response text and the usage of the terminal outcome of a run that succeeded
FinalResponse(r) ==
    IF Stream(r) THEN LastEvent(r).data.response ELSE outcome[r].response

FinalUsage(r) ==
    IF Stream(r) THEN LastEvent(r).data.usage ELSE outcome[r].usage

FinalAgentInfo(r) ==
    IF Stream(r) THEN LastEvent(r).data.agent_info ELSE outcome[r].agent_info

\* the index of the first ResultMessage of a message sequence, 0 if it has none
FirstResult(msgs) ==
    LET K == {k \in 1..Len(msgs) : msgs[k].type = "ResultMessage"}
    IN  IF K = {} THEN 0 ELSE CHOOSE k \in K : \A i \in K : k <= i

\* the messages a stream yields up to and including its first ResultMessage
UpToResult(msgs) ==
    IF FirstResult(msgs) = 0 THEN msgs ELSE SubSeq(msgs, 1, FirstResult(msgs))

\* the messages run r has taken from its stream
Taken(r) == SubSeq(script[r].msgs, 1, pos[r])

\* the content blocks of the AssistantMessages of a message sequence, in order
AllBlocks(msgs) ==
    LET F[i \in 0..Len(msgs)] ==
            IF i = 0 THEN <<>>
            ELSE IF msgs[i].type = "AssistantMessage" THEN F[i - 1] \o msgs[i].content
            ELSE F[i - 1]
    IN  F[Len(msgs)]

IsText(block) == block.type = "TextBlock"

IsToolUse(block) == block.type = "ToolUseBlock"

\* the texts of the TextBlocks of a block sequence, in order
BlockTexts(blocks) ==
    LET tb == SelectSeq(blocks, IsText)
    IN  [i \in 1..Len(tb) |-> tb[i].text]

\* the texts of the TextBlocks of a message sequence, in order
FragmentTexts(msgs) == BlockTexts(AllBlocks(msgs))

\* the texts joined by one newline between neighbours, built from the left
NewlineJoined(texts) ==
    LET F[i \in 0..Len(texts)] ==
            IF i = 0 THEN ""
            ELSE IF i = 1 THEN texts[1]
            ELSE F[i - 1] \o "\n" \o texts[i]
    IN  F[Len(texts)]

\* the messages are AssistantMessages of TextBlocks only, then one ResultMessage
OnlyTextThenResult(msgs) ==
    /\ Len(msgs) >= 1
    /\ msgs[Len(msgs)].type = "ResultMessage"
    /\ \A i \in 1..(Len(msgs) - 1) :
          /\ msgs[i].type = "AssistantMessage"
          /\ \A j \in 1..Len(msgs[i].content) : IsText(msgs[i].content[j])

(***************************************************************************)
(* C1.  A streaming run emits at most one terminal event (complete or      *)
(* error), a terminal event is always the last event emitted, and a run    *)
(* has emitted one exactly when it has reached its end.                    *)
(***************************************************************************)
C1_OneTerminalLast ==
    \A r \in Runs :
        Stream(r) =>
            /\ Cardinality(TerminalAt(r)) <= 1
            /\ TerminalAt(r) # {} => TerminalAt(r) = {Len(events[r])}
            /\ Finished(r) <=> TerminalAt(r) # {}

\* a streaming run whose stream raised after a response event has returned
C1_Witness ==
    \E r \in Runs :
        /\ Stream(r) /\ pc[r] = "done"
        /\ script[r].end = "raise"
        /\ LastEvent(r).type = "error"
        /\ \E i \in 1..Len(events[r]) : events[r][i].type = "response"

(***************************************************************************)
(* C2.  When the stream yields only AssistantMessages of TextBlocks and    *)
(* then a ResultMessage, with at least one TextBlock, the response of the  *)
(* terminal outcome is the texts of the blocks in arrival order, joined by *)
(* one newline between neighbours (both modes).                            *)
(***************************************************************************)
C2_ResponseIsJoinedTexts ==
    \A r \in Runs :
        LET yielded == UpToResult(script[r].msgs)
        IN  /\ Finished(r) /\ options[r] = "built"
            /\ OnlyTextThenResult(yielded)
            /\ FragmentTexts(yielded) # <<>>
            => /\ Succeeded(r)
               /\ FinalResponse(r) = NewlineJoined(FragmentTexts(yielded))

\* a run has ended after two fragments of two messages and the ResultMessage
C2_Witness ==
    /\ \E r \in Runs :
        /\ Finished(r) /\ Succeeded(r)
        /\ OnlyTextThenResult(UpToResult(script[r].msgs))
        /\ FragmentTexts(UpToResult(script[r].msgs)) = <<"a", "">>
        /\ Len(script[r].msgs) = 3
        /\ FinalResponse(r) = "a\n"

(***************************************************************************)
(* C3.  A run takes no message after the first ResultMessage of its        *)
(* stream, and what it shows at its end is what the messages up to that    *)
(* ResultMessage give: the block events, the response text and the usage   *)
(* (both modes).                                                           *)
(***************************************************************************)
C3_StopsAtFirstResult ==
    \A r \in Runs :
        LET k == FirstResult(script[r].msgs)
            yielded == UpToResult(script[r].msgs)
            texts == FragmentTexts(yielded)
            shown == SelectSeq(AllBlocks(yielded), LAMBDA b : IsText(b) \/ IsToolUse(b))
        IN  k # 0 =>
              /\ pos[r] <= k
              /\ Finished(r) /\ options[r] = "built" =>
                    /\ pos[r] = k
                    /\ Succeeded(r)
                    /\ response_parts[r] = texts
                    /\ FinalResponse(r) =
                          IF texts = <<>> THEN "No response received"
                          ELSE NewlineJoined(texts)
                    /\ FinalUsage(r).session_id = script[r].msgs[k].session_id
                    /\ Stream(r) => Len(events[r]) = Len(shown) + 3

\* a run has ended at a ResultMessage that a TextBlock and a raise would follow
C3_Witness ==
    \E r \in Runs :
        LET msgs == script[r].msgs
        IN  /\ Finished(r)
            /\ FirstResult(msgs) = 1 /\ Len(msgs) = 3
            /\ msgs[2].type = "AssistantMessage" /\ msgs[2].content # <<>>
            /\ msgs[3].type = "ResultMessage" /\ msgs[3] # msgs[1]
            /\ script[r].end = "raise"
            /\ options[r] = "built"

(***************************************************************************)
(* C4.  A run that ends without error, by a ResultMessage or by the end of *)
(* the stream, having taken no TextBlock, has the response                 *)
(* "No response received" (both modes), also when it took ToolUseBlocks or *)
(* ignored messages and blocks.                                            *)
(***************************************************************************)
C4_NoTextNoResponse ==
    \A r \in Runs :
        /\ Succeeded(r)
        /\ FragmentTexts(Taken(r)) = <<>>
        => FinalResponse(r) = "No response received"

\* a run has ended without error after a ToolUseBlock and an ignored message
C4_Witness ==
    \E r \in Runs :
        /\ Succeeded(r)
        /\ FragmentTexts(Taken(r)) = <<>>
        /\ \E i \in 1..Len(AllBlocks(Taken(r))) : IsToolUse(AllBlocks(Taken(r))[i])
        /\ \E i \in 1..pos[r] : script[r].msgs[i].type = "SystemMessage"
        /\ FinalResponse(r) = "No response received"

\* the stream of run r raises before it yields a ResultMessage
StreamRaises(r) == FirstResult(script[r].msgs) = 0 /\ script[r].end = "raise"

EventTypes(r) == [i \in 1..Len(events[r]) |-> events[r][i].type]

(***************************************************************************)
(* C5.  A streaming run whose configuration or stream raises ends with one *)
(* error event that carries str(e): it is the last event, no other error   *)
(* event and no complete event is emitted; when the stream raises before   *)
(* its first message the events are the two progress events and the error. *)
(***************************************************************************)
C5_OneErrorEvent ==
    \A r \in Runs :
        /\ Stream(r) /\ Finished(r)
        /\ options[r] = "failed" \/ StreamRaises(r)
        => /\ {i \in 1..Len(events[r]) : events[r][i].type = "error"} = {Len(events[r])}
           /\ \A i \in 1..Len(events[r]) : events[r][i].type # "complete"
           /\ LastEvent(r).data.error =
                 IF options[r] = "failed" THEN OptionsError.args[1] ELSE StreamError.args[1]
           /\ options[r] = "built" /\ script[r].msgs = <<>> =>
                 EventTypes(r) = <<"progress", "progress", "error">>

\* the stream has raised after a TextBlock was taken, and the events end in error
C5_Witness ==
    \E r \in Runs :
        /\ Stream(r) /\ pc[r] = "y_terminal"
        /\ options[r] = "built" /\ StreamRaises(r)
        /\ response_parts[r] # <<>>
        /\ LastEvent(r).data.error = "agent process failed"

(***************************************************************************)
(* C6.  A buffered run whose configuration or stream raises ends with the  *)
(* failure of status 500 and detail "Agent execution failed: " followed by *)
(* str(e), whatever it had accumulated; the outcome holds nothing else.    *)
(***************************************************************************)
C6_FailureIs500 ==
    \A r \in Runs :
        /\ Query(r) /\ Finished(r)
        /\ options[r] = "failed" \/ StreamRaises(r)
        => outcome[r] =
              [status_code |-> 500,
               detail |-> "Agent execution failed: " \o
                          (IF options[r] = "failed" THEN OptionsError.args[1]
                           ELSE StreamError.args[1])]

\* the stream has raised after the buffered run had accumulated two texts
C6_Witness ==
    \E r \in Runs :
        /\ Query(r) /\ Finished(r)
        /\ options[r] = "built" /\ StreamRaises(r)
        /\ Len(response_parts[r]) = 2
        /\ outcome[r].status_code = 500

\* the blocks the loop of run r has handled
Handled(r) ==
    IF pc[r] = "y_block"
    THEN AllBlocks(SubSeq(script[r].msgs, 1, pos[r] - 1)) \o
         SubSeq(script[r].msgs[pos[r]].content, 1, blk[r])
    ELSE AllBlocks(Taken(r))

IsBlockEvent(ev) == ev.type \in {"response", "tool_use"}

(***************************************************************************)
(* C7.  In a streaming run the response and tool_use events emitted so far *)
(* are, one for one and in the same order, the TextBlocks and              *)
(* ToolUseBlocks handled so far, in message order and block order.         *)
(***************************************************************************)
C7_EventsFollowBlocks ==
    \A r \in Runs :
        Stream(r) =>
            LET shown == SelectSeq(Handled(r), LAMBDA b : IsText(b) \/ IsToolUse(b))
                evs == SelectSeq(events[r], IsBlockEvent)
            IN  /\ Len(evs) = Len(shown)
                /\ \A i \in 1..Len(shown) :
                      IF IsText(shown[i])
                      THEN /\ evs[i].type = "response"
                           /\ evs[i].data.content = shown[i].text
                           /\ evs[i].data.partial = TRUE
                      ELSE /\ evs[i].type = "tool_use"
                           /\ evs[i].data.tool = shown[i].name
                           /\ evs[i].data.input = shown[i].input

\* a ToolUseBlock of one message, then a TextBlock of the next message
C7_Witness ==
    \E r \in Runs :
        /\ Stream(r) /\ Finished(r)
        /\ pos[r] = 2
        /\ EventTypes(r) = <<"progress", "progress", "tool_use", "response", "complete">>
        /\ script[r].msgs[1].type = "AssistantMessage"
        /\ Len(script[r].msgs[1].content) = 1
        /\ script[r].msgs[2].type = "AssistantMessage"
        /\ events[r][4].data.content = "a"

(***************************************************************************)
(* C8.  A streaming run and a buffered run on the same script, with the    *)
(* same result of building the options, agree at their ends: one ends in   *)
(* an error event exactly when the other ends in a failure, a script that  *)
(* raises no error ends both without error, and then the response, the     *)
(* usage and the agent info of the complete event are those of the         *)
(* buffered outcome, whose status is success.                              *)
(***************************************************************************)
C8_ModesAgree ==
    \A r1, r2 \in Runs :
        /\ Stream(r1) /\ Query(r2)
        /\ script[r1] = script[r2] /\ options[r1] = options[r2]
        /\ Finished(r1) /\ Finished(r2)
        => /\ Failed(r1) <=> Failed(r2)
           /\ options[r1] = "built" /\ ~StreamRaises(r1) => Succeeded(r1)
           /\ Succeeded(r1) =>
                 /\ LastEvent(r1).type = "complete"
                 /\ outcome[r2].status = "success"
                 /\ LastEvent(r1).data.response = outcome[r2].response
                 /\ LastEvent(r1).data.usage = outcome[r2].usage
                 /\ LastEvent(r1).data.agent_info = outcome[r2].agent_info

\* both runs have ended without error on a script of an empty text, a
\* ToolUseBlock and a ResultMessage
C8_Witness ==
    \E r1, r2 \in Runs :
        /\ Stream(r1) /\ Query(r2) /\ script[r1] = script[r2]
        /\ Succeeded(r1) /\ Succeeded(r2)
        /\ pc[r1] = "done"
        /\ EventTypes(r1) = <<"progress", "progress", "response", "tool_use", "complete">>
        /\ outcome[r2].response = ""
        /\ outcome[r2].usage # EmptyDict

(***************************************************************************)
(* C9.  The usage of a terminal outcome without error is the four fields   *)
(* of the first ResultMessage when the run took one, and the empty dict    *)
(* when the stream ended without one; the end of the stream without a      *)
(* ResultMessage gives a terminal outcome without error, and a stream that *)
(* ends at once gives "No response received" and the empty dict.           *)
(***************************************************************************)
C9_UsageOfOutcome ==
    \A r \in Runs :
        LET msgs == script[r].msgs
            k == FirstResult(msgs)
        IN  /\ Succeeded(r) /\ k # 0 =>
                  FinalUsage(r) = [duration_ms |-> msgs[k].duration_ms,
                                   total_cost_usd |-> msgs[k].total_cost_usd,
                                   num_turns |-> msgs[k].num_turns,
                                   session_id |-> msgs[k].session_id]
            /\ Succeeded(r) /\ k = 0 => FinalUsage(r) = <<>>
            /\ Finished(r) /\ options[r] = "built" /\ k = 0 /\ script[r].end = "exhaust" =>
                  /\ Succeeded(r)
                  /\ msgs = <<>> => FinalResponse(r) = "No response received"

\* a stream has ended without a ResultMessage after a TextBlock was taken
C9_Witness ==
    \E r \in Runs :
        /\ Succeeded(r)
        /\ FirstResult(script[r].msgs) = 0 /\ pos[r] = Len(script[r].msgs)
        /\ response_parts[r] # <<>>
        /\ FinalUsage(r) = EmptyDict

\* the usage run r holds on its own: that of the ResultMessage it took last
OwnUsage(r) ==
    IF pos[r] > 0 /\ script[r].msgs[pos[r]].type = "ResultMessage"
    THEN UsageOf(script[r].msgs[pos[r]])
    ELSE None

\* the events of the blocks run r has handled
OwnBlockEvents(r) ==
    LET shown == SelectSeq(Handled(r), Yields)
    IN  [i \in 1..Len(shown) |-> BlockEvent(shown[i])]

\* the error run r met on its own, if it met one
OwnError(r) == IF options[r] = "failed" THEN OptionsError ELSE StreamError

OwnFailed(r) ==
    \/ options[r] = "failed"
    \/ /\ pos[r] = Len(script[r].msgs) /\ OwnUsage(r) = None
       /\ script[r].end = "raise"

\* the events a streaming run alone on its script has emitted at this point
OwnEvents(r) ==
    IF pc[r] = "start" THEN <<>>
    ELSE IF pc[r] = "y_init" THEN <<InitEvent>>
    ELSE IF options[r] = "failed" THEN <<InitEvent, ErrorEvent(OptionsError)>>
    ELSE <<InitEvent, ProcessingEvent>> \o OwnBlockEvents(r) \o
         (IF ~Finished(r) THEN <<>>
          ELSE IF OwnFailed(r) THEN <<ErrorEvent(StreamError)>>
          ELSE <<CompleteEvent(FragmentTexts(Taken(r)), OwnUsage(r))>>)

\* the outcome a buffered run alone on its script has at this point
OwnOutcome(r) ==
    IF ~Finished(r) THEN None
    ELSE IF OwnFailed(r) THEN HTTPException(OwnError(r))
    ELSE QueryResponse(FragmentTexts(Taken(r)), OwnUsage(r))

(***************************************************************************)
(* C10.  In any interleaving of concurrent runs, every run shows at every  *)
(* point what its own script gives: its accumulator holds the texts of the *)
(* blocks it has handled, its usage is None or that of the ResultMessage   *)
(* it took, its events are the events of its own blocks and its outcome is *)
(* that of its own accumulator and usage; nothing of another run appears.  *)
(***************************************************************************)
C10_RunsIndependent ==
    \A r \in Runs :
        /\ pos[r] <= Len(script[r].msgs)
        /\ response_parts[r] = BlockTexts(Handled(r))
        /\ usage_info[r] = OwnUsage(r)
        /\ IF Stream(r)
           THEN events[r] = OwnEvents(r) /\ outcome[r] = None
           ELSE outcome[r] = OwnOutcome(r) /\ events[r] = <<>>

\* a streaming run suspended at the yield of its text "a" while a buffered
\* run of another script, having taken its text "", awaits its next message
C10_Witness ==
    \E r1, r2 \in Runs :
        /\ Stream(r1) /\ pc[r1] = "y_block"
        /\ Query(r2) /\ pc[r2] = "await" /\ pos[r2] = 1
        /\ response_parts[r1] = <<"a">> /\ response_parts[r2] = <<"">>
        /\ script[r1] # script[r2]

\* the stream of run r ends, yields a ResultMessage or raises
Terminates(r) == script[r].end # "hang" \/ FirstResult(script[r].msgs) # 0

\* run r awaits a message of a stream that delivers no more, and that has
\* neither ended, nor yielded a ResultMessage, nor raised
Hanging(r) == pc[r] = "await" /\ ~Delivers(r) /\ ~Terminates(r)

\* run r has produced its terminal outcome and finished
Done(r) ==
    /\ pc[r] = "done"
    /\ IF Stream(r) THEN TerminalAt(r) # {} ELSE outcome[r] # None

(***************************************************************************)
(* C11.  Under fair scheduling every run comes to have produced its        *)
(* terminal outcome and finished, or to wait for a message of a stream     *)
(* that delivers no more and has neither ended, nor yielded a              *)
(* ResultMessage, nor raised: a run whose stream does one of these         *)
(* finishes, and a run is blocked for ever only in that wait.              *)
(***************************************************************************)
C11_EventuallyFinishes ==
    \A r \in 1..NumRuns : <>(Done(r) \/ Hanging(r))

\* a run has finished at the ResultMessage of a stream that would hang after
\* it, while another run waits for a stream that delivers no more
C11_Witness ==
    \E r1, r2 \in Runs :
        /\ pc[r1] = "done" /\ script[r1].end = "hang" /\ pos[r1] = 1
        /\ Hanging(r2) /\ response_parts[r2] = <<"a">>

\* the positions of the progress events among the events of run r
ProgressAt(r) == {i \in 1..Len(events[r]) : events[r][i].type = "progress"}

(***************************************************************************)
(* C12 as stated.  Every streaming run emits the progress event of         *)
(* initialization and then the progress event of processing: they are the  *)
(* first two events of a run that has reached its end.                     *)
(***************************************************************************)
C12_TwoProgressEventsFirst ==
    \A r \in Runs :
        Stream(r) /\ Finished(r) =>
            /\ Len(events[r]) >= 2
            /\ events[r][1].type = "progress" /\ events[r][1].data.status = "initializing"
            /\ events[r][2].type = "progress" /\ events[r][2].data.status = "processing"

(***************************************************************************)
(* C12 as amended.  The first event of a streaming run is the progress     *)
(* event of initialization.  If ClaudeAgentOptions does not raise, the     *)
(* second event is the progress event of processing and both are emitted   *)
(* before the stream is opened; if it raises, the second event is the      *)
(* error event and the stream is never opened.  No response or tool_use    *)
(* event precedes a progress event and none is emitted once the stream is  *)
(* open: the progress events are the first one or two events.              *)
(***************************************************************************)
C12_ProgressBeforeOpen ==
    \A r \in Runs :
        Stream(r) =>
            /\ Len(events[r]) >= 1 =>
                  /\ events[r][1].type = "progress"
                  /\ events[r][1].data.status = "initializing"
            /\ Len(events[r]) >= 2 =>
                  IF options[r] = "failed"
                  THEN EventTypes(r) = <<"progress", "error">> /\ opened[r] = 0
                  ELSE /\ events[r][2].type = "progress"
                       /\ events[r][2].data.status = "processing"
            /\ ProgressAt(r) \subseteq {1, 2}
            /\ opened[r] >= 1 => ProgressAt(r) = {1, 2}
            /\ pc[r] = "y_processing" => opened[r] = 0 /\ Len(events[r]) = 2

\* the stream is open and a tool_use and a response event follow the two
\* progress events
C12_Witness ==
    \E r \in Runs :
        /\ Stream(r) /\ opened[r] = 1
        /\ EventTypes(r) = <<"progress", "progress", "tool_use", "response">>

\* the step takes from the stream of run r a message that is neither an
\* AssistantMessage nor a ResultMessage
TakesOtherMessage(r) ==
    /\ pos'[r] = pos[r] + 1
    /\ script[r].msgs[pos'[r]].type \notin {"AssistantMessage", "ResultMessage"}

\* the blocks the step makes the loop of run r handle
NewlyHandled(r) == SubSeq(Handled(r)', Len(Handled(r)) + 1, Len(Handled(r)'))

\* the step leaves what run r shows as it is and the run in its loop
LeavesRunAsItIs(r) ==
    /\ events'[r] = events[r]
    /\ response_parts'[r] = response_parts[r]
    /\ usage_info'[r] = usage_info[r]
    /\ outcome'[r] = outcome[r]
    /\ pc'[r] = "await"

(***************************************************************************)
(* C13.  A step that takes a message that is neither an AssistantMessage   *)
(* nor a ResultMessage, or that handles only blocks that are neither       *)
(* TextBlocks nor ToolUseBlocks, emits no event, leaves the accumulator,   *)
(* the usage and the outcome unchanged, raises nothing and leaves the run  *)
(* awaiting its next message (both modes); such blocks among others add    *)
(* nothing to the accumulator and no event.                                *)
(***************************************************************************)
C13_OthersIgnored ==
    [][\A r \in Runs :
          /\ TakesOtherMessage(r) => LeavesRunAsItIs(r)
          /\ /\ NewlyHandled(r) # <<>>
             /\ \A i \in 1..Len(NewlyHandled(r)) : ~Yields(NewlyHandled(r)[i])
             => LeavesRunAsItIs(r)
          /\ response_parts'[r] = response_parts[r] \o BlockTexts(NewlyHandled(r))
          /\ Len(SelectSeq(events'[r], IsBlockEvent)) =
                Len(SelectSeq(events[r], IsBlockEvent)) +
                (IF Stream(r) THEN Len(SelectSeq(NewlyHandled(r), Yields)) ELSE 0)
      ]_vars

\* a run has taken an ignored message and a message of one ignored block and
\* awaits its third message, with nothing shown but the two progress events
C13_Witness ==
    \E r \in Runs :
        /\ Stream(r) /\ pc[r] = "await" /\ pos[r] = 2 /\ Len(script[r].msgs) = 3
        /\ script[r].msgs[1].type = "SystemMessage"
        /\ AllBlocks(Taken(r)) = <<[type |-> "ToolResultBlock"]>>
        /\ EventTypes(r) = <<"progress", "progress">>
        /\ response_parts[r] = <<>> /\ usage_info[r] = None

IsToolUseEvent(ev) == ev.type = "tool_use"

NotToolUse(block) == ~IsToolUse(block)

(***************************************************************************)
(* C14.  A ToolUseBlock never changes the response text.  A streaming run  *)
(* has emitted one tool_use event, with the tool's name and input, for     *)
(* each ToolUseBlock it has handled, in order, and a buffered run none;    *)
(* the accumulator is that of the handled blocks without the               *)
(* ToolUseBlocks; and a run ends as the run of the same mode on the same   *)
(* script without its ToolUseBlocks does, with the same response.          *)
(***************************************************************************)
C14_ToolUseLeavesText ==
    /\ \A r \in Runs :
          LET tools == SelectSeq(Handled(r), IsToolUse)
              tevs == SelectSeq(events[r], IsToolUseEvent)
          IN  /\ response_parts[r] = BlockTexts(SelectSeq(Handled(r), NotToolUse))
              /\ Query(r) => events[r] = <<>>
              /\ Stream(r) =>
                    /\ Len(tevs) = Len(tools)
                    /\ \A i \in 1..Len(tools) :
                          /\ tevs[i].data.tool = tools[i].name
                          /\ tevs[i].data.input = tools[i].input
    /\ \A r1, r2 \in Runs :
          /\ mode[r1] = mode[r2] /\ options[r1] = options[r2]
          /\ script[r2] = WithoutToolUse(script[r1])
          /\ Finished(r1) /\ Finished(r2)
          => /\ Failed(r1) <=> Failed(r2)
             /\ Succeeded(r1) => FinalResponse(r1) = FinalResponse(r2)

\* a streaming run that handled a ToolUseBlock between two texts and the run
\* on the script without it have both ended, with the same response
C14_Witness ==
    \E r1, r2 \in Runs :
        /\ Stream(r1) /\ Stream(r2) /\ script[r1] # script[r2]
        /\ script[r2] = WithoutToolUse(script[r1])
        /\ Succeeded(r1) /\ Succeeded(r2)
        /\ EventTypes(r1) = <<"progress", "progress", "tool_use", "response", "complete">>
        /\ EventTypes(r2) = <<"progress", "progress", "response", "complete">>
        /\ FinalResponse(r1) = "a" /\ FinalResponse(r2) = "a"

(***************************************************************************)
(* C15.  A run calls query(...) at most once: the count of calls is 0 or   *)
(* 1, it changes only from 0 to 1 and only before the run has its terminal *)
(* outcome, and a run that has its terminal outcome, by error or not,      *)
(* keeps it and takes no further message (both modes).                     *)
(***************************************************************************)
C15_OpenedAtMostOnce ==
    [][\A r \in Runs :
          /\ opened[r] \in {0, 1} /\ opened'[r] \in {0, 1}
          /\ opened'[r] # opened[r] => opened[r] = 0 /\ ~Finished(r)
          /\ options'[r] = "failed" => opened'[r] = 0
          /\ Finished(r) =>
                /\ Finished(r)'
                /\ pos'[r] = pos[r]
                /\ events'[r] = events[r] /\ outcome'[r] = outcome[r]
      ]_vars

\* a streaming run whose stream raised after a message has returned, having
\* called query(...) once
C15_Witness ==
    \E r \in Runs :
        /\ Stream(r) /\ pc[r] = "done" /\ Failed(r)
        /\ opened[r] = 1 /\ pos[r] >= 1

IsResponseEvent(ev) == ev.type = "response"

\* the contents of the response events run r has emitted, in order
ResponseContents(r) ==
    LET revs == SelectSeq(events[r], IsResponseEvent)
    IN  [i \in 1..Len(revs) |-> revs[i].data.content]

(***************************************************************************)
(* C16.  In a streaming run the accumulator is at every point the sequence *)
(* of the contents of the response events emitted so far, each of them     *)
(* marked partial and one for each TextBlock handled; and the response of  *)
(* a complete event that response events precede is their contents joined  *)
(* by one newline, in the order of emission.                               *)
(***************************************************************************)
C16_AccumulatorIsResponseEvents ==
    \A r \in Runs :
        Stream(r) =>
            /\ response_parts[r] = ResponseContents(r)
            /\ Len(ResponseContents(r)) = Len(SelectSeq(Handled(r), IsText))
            /\ \A i \in 1..Len(events[r]) :
                  events[r][i].type = "response" => events[r][i].data.partial = TRUE
            /\ /\ Len(events[r]) >= 1 /\ LastEvent(r).type = "complete"
               /\ ResponseContents(r) # <<>>
               => LastEvent(r).data.response = NewlineJoined(ResponseContents(r))

\* a complete event follows the response events of an empty text and of "a"
C16_Witness ==
    \E r \in Runs :
        /\ Stream(r) /\ Finished(r)
        /\ EventTypes(r) = <<"progress", "progress", "response", "response", "complete">>
        /\ ResponseContents(r) = <<"", "a">>
        /\ LastEvent(r).data.response = "\na"

(***************************************************************************)
(* C17 as stated.  A run that ends without error has the response          *)
(* "No response received" exactly when it has taken no TextBlock: a        *)
(* TextBlock of empty text counts as a fragment (both modes).              *)
(***************************************************************************)
C17_LiteralIffNoFragment ==
    \A r \in Runs :
        Succeeded(r) =>
            (FinalResponse(r) = "No response received" <=> FragmentTexts(Taken(r)) = <<>>)

(***************************************************************************)
(* C17 as amended.  A TextBlock of empty text counts as a fragment (both   *)
(* modes): a run that ends without error after at least one TextBlock has  *)
(* the newline-join of the texts taken as its response, which is the empty *)
(* string for one empty text and never the fallback for empty texts only;  *)
(* a run that took none has "No response received"; and the response is    *)
(* "No response received" only if no TextBlock was taken or the texts      *)
(* taken join to these very characters.                                    *)
(***************************************************************************)
C17_EmptyTextCounts ==
    \A r \in Runs :
        LET texts == FragmentTexts(Taken(r))
        IN  Succeeded(r) =>
              /\ texts = <<>> => FinalResponse(r) = "No response received"
              /\ texts # <<>> => FinalResponse(r) = NewlineJoined(texts)
              /\ texts # <<>> /\ (\A i \in 1..Len(texts) : texts[i] = "") =>
                    FinalResponse(r) # "No response received"
              /\ texts = <<"">> => FinalResponse(r) = ""
              /\ FinalResponse(r) = "No response received" =>
                    texts = <<>> \/ NewlineJoined(texts) = "No response received"

\* a run has ended without error having taken two empty texts and nothing else
C17_Witness ==
    \E r \in Runs :
        /\ Succeeded(r)
        /\ FragmentTexts(Taken(r)) = <<"", "">>
        /\ FinalResponse(r) = "\n"

====
